---------------------------- MODULE Spec2Model ----------------------------
(***************************************************************************)
(* A model of the MDX formatter of hoa-backend (src/src/formatter.rs).     *)
(*                                                                         *)
(* A text is a sequence of one-character strings.  Every pass of the       *)
(* formatter is an operator on texts that computes what the Rust code      *)
(* computes: a regular expression is modelled by its leftmost-first        *)
(* matching (greedy and lazy repetitions tried in the order the regex      *)
(* crate prefers them), a literal search by the first occurrence.          *)
(***************************************************************************)
EXTENDS Integers, Sequences, FiniteSets, TLC

VARIABLES
    pc,                \* position of the running function
    content,           \* the text the function was called with
    result,            \* the working string (result)
    run,               \* how many times format_mdx_file has run over the file
    first_output,      \* what the first run of format_mdx_file returned
    protected_content, \* convert_inline_math: the text with placeholders
    code_blocks,       \* convert_inline_math: the extracted fenced regions
    pos,               \* convert_inline_math: characters consumed from chars
    in_math,           \* convert_inline_math: in_math
    math_buffer,       \* convert_inline_math: math_buffer
    lines,             \* wrap_accordions_in_container: lines
    idx,               \* wrap_accordions_in_container: lines consumed by the loop
    wrapped,           \* wrap_accordions_in_container: result (a Vec of lines)
    in_sequence,       \* wrap_accordions_in_container: in_sequence
    accordion_buffer,  \* wrap_accordions_in_container: accordion_buffer
    depth,             \* wrap_accordions_in_container: depth
    files,             \* format_all_mdx_files: the files under docs_dir as found
    disk,              \* format_all_mdx_files: the text each file holds now
    entry,             \* format_all_mdx_files: entries the walk has yielded
    written,           \* format_all_mdx_files: the entries fs::write was called on
    modified_count     \* format_all_mdx_files: modified_count

vars == <<pc, content, result, run, first_output, protected_content,
          code_blocks, pos, in_math, math_buffer, lines, idx, wrapped,
          in_sequence, accordion_buffer, depth, files, disk, entry, written,
          modified_count>>

-----------------------------------------------------------------------------
(* Characters and strings.                                                 *)

NL == "\n"
CR == "\r"

\* The backquote character (U+0060).  A TLA+ string cannot hold it, so this
\* one character of the text is written by name.
Backtick == "BACKQUOTE"

\* The characters the regex class \s and str::trim treat as white space.
IsSpace(c) == c \in {" ", "\t", "\n", "\r", "\f"}

\* lit occurs in s at position p (1-based).
StartsAt(s, p, lit) ==
    /\ p >= 1
    /\ p + Len(lit) - 1 <= Len(s)
    /\ SubSeq(s, p, p + Len(lit) - 1) = lit

\* The least element of a non-empty set of integers.
Least(S) == CHOOSE x \in S : \A y \in S : x <= y

\* The first position >= from at which lit occurs in s; 0 when there is none.
FindFrom(s, lit, from) ==
    LET hits == {k \in from..(Len(s) - Len(lit) + 1) :
                    s[k] = lit[1] /\ SubSeq(s, k, k + Len(lit) - 1) = lit}
    IN  IF hits = {} THEN 0 ELSE Least(hits)

\* str::contains
Contains(s, lit) == FindFrom(s, lit, 1) # 0

\* The text from position p to the end.
Tail_(s, p) == SubSeq(s, p, Len(s))

\* str::replace(lit, rep): every occurrence, left to right, not overlapping.
RECURSIVE ReplaceFrom(_, _, _, _)
ReplaceFrom(s, lit, rep, p) ==
    LET q == FindFrom(s, lit, p) IN
    IF q = 0 THEN Tail_(s, p)
    ELSE SubSeq(s, p, q - 1) \o rep \o ReplaceFrom(s, lit, rep, q + Len(lit))

Replace(s, lit, rep) == ReplaceFrom(s, lit, rep, 1)

\* str::replacen(lit, rep, 1): the first occurrence only.
ReplaceFirst(s, lit, rep) ==
    LET q == FindFrom(s, lit, 1) IN
    IF q = 0 THEN s
    ELSE SubSeq(s, 1, q - 1) \o rep \o Tail_(s, q + Len(lit))

\* The position after the longest run of white space that starts at p.
RECURSIVE SkipSpace(_, _)
SkipSpace(s, p) ==
    IF p <= Len(s) /\ IsSpace(s[p]) THEN SkipSpace(s, p + 1) ELSE p

\* str::split: the pieces between separators (the empty text gives one
\* empty piece).
RECURSIVE SplitFrom(_, _, _)
SplitFrom(s, sep, p) ==
    LET q == FindFrom(s, <<sep>>, p) IN
    IF q = 0 THEN <<Tail_(s, p)>>
    ELSE <<SubSeq(s, p, q - 1)>> \o SplitFrom(s, sep, q + 1)

Split(s, sep) == SplitFrom(s, sep, 1)

\* [T]::join(sep)
RECURSIVE Join(_, _)
Join(ls, sep) ==
    IF Len(ls) = 0 THEN <<>>
    ELSE IF Len(ls) = 1 THEN ls[1]
    ELSE ls[1] \o sep \o Join(Tail(ls), sep)

\* str::trim
RECURSIVE TrimEnd(_)
TrimEnd(s) ==
    IF Len(s) > 0 /\ IsSpace(s[Len(s)]) THEN TrimEnd(SubSeq(s, 1, Len(s) - 1))
    ELSE s

Trim(s) == TrimEnd(Tail_(s, SkipSpace(s, 1)))

\* The concatenation of a sequence of texts.
RECURSIVE Concat(_)
Concat(ss) == IF Len(ss) = 0 THEN <<>> ELSE ss[1] \o Concat(Tail(ss))

\* The number of occurrences of the character c in s.
Count(s, c) == Cardinality({k \in 1..Len(s) : s[k] = c})

-----------------------------------------------------------------------------
(* The literals of the formatter.                                          *)

CommentOpen  == <<"<", "!", "-", "-">>
CommentClose == <<"-", "-", ">">>
BadgeHost    == <<"h", "t", "t", "p", "s", ":", "/", "/", "i", "m", "g", ".",
                  "s", "h", "i", "e", "l", "d", "s", ".", "i", "o">>
BrOpen       == <<"<", "b", "r">>
BrClosed     == <<"<", "b", "r", " ", "/", ">">>
HrOpen       == <<"<", "h", "r">>
HrClosed     == <<"<", "h", "r", " ", "/", ">">>
TrTag        == <<"<", "t", "r", ">">>
TableClose   == <<"<", "/", "t", "a", "b", "l", "e", ">">>
TrClose      == <<"<", "/", "t", "r", ">">>
StyleOpen    == <<"s", "t", "y", "l", "e", "=", "\"">>
StyleJsxOpen == <<"s", "t", "y", "l", "e", "=", "{", "{">>
StyleJsxClose == <<"}", "}">>
DetailsOpen  == <<"{", "{", "%", " ", "d", "e", "t", "a", "i", "l", "s", " ",
                  "t", "i", "t", "l", "e", "=", "\"">>
ShortcodeEnd == <<"%", "}", "}">>
DetailsClose == <<"{", "{", "%", " ", "/", "d", "e", "t", "a", "i", "l", "s",
                  " ", "%", "}", "}">>
AccordionTitle == <<"<", "A", "c", "c", "o", "r", "d", "i", "o", "n", " ",
                    "t", "i", "t", "l", "e", "=", "\"">>
TagEnd       == <<"\"", ">">>
AccordionClose == <<"<", "/", "A", "c", "c", "o", "r", "d", "i", "o", "n", ">">>
AccordionOpen == <<"<", "A", "c", "c", "o", "r", "d", "i", "o", "n", " ">>
AccordionsOpen == <<"<", "A", "c", "c", "o", "r", "d", "i", "o", "n", "s", ">">>
AccordionsClose == <<"<", "/", "A", "c", "c", "o", "r", "d", "i", "o", "n",
                     "s", ">">>
Fence        == <<Backtick, Backtick, Backtick>>
PlaceholderHead == <<"_", "_", "_", "C", "O", "D", "E", "_", "B", "L", "O",
                     "C", "K", "_", "P", "L", "A", "C", "E", "H", "O", "L",
                     "D", "E", "R", "_">>
PlaceholderTail == <<"_", "_", "_">>
MathFenceOpen == <<Backtick, Backtick, Backtick, "m", "a", "t", "h", "\n">>
MathFenceClose == <<"\n", Backtick, Backtick, Backtick>>
Dollars      == <<"$", "$">>

-----------------------------------------------------------------------------
(* Structural cleaner.                                                     *)

\* Regex <!--[\s\S]*?-->, every match removed.
RECURSIVE RemoveCommentsFrom(_, _)
RemoveCommentsFrom(s, p) ==
    LET q == FindFrom(s, CommentOpen, p)
        e == IF q = 0 THEN 0 ELSE FindFrom(s, CommentClose, q + Len(CommentOpen))
    IN  IF e = 0 THEN Tail_(s, p)
        ELSE SubSeq(s, p, q - 1) \o RemoveCommentsFrom(s, e + Len(CommentClose))

remove_html_comments(s) == RemoveCommentsFrom(s, 1)

\* split at line feeds, keep the lines without the badge host, join them
remove_shield_badges(s) ==
    Join(SelectSeq(Split(s, NL), LAMBDA line : ~Contains(line, BadgeHost)),
         <<NL>>)

\* Regex <open>\s*<close>, every match replaced by rep (open ends and close
\* starts with a character that is not white space, so \s* takes the whole run).
RECURSIVE ReplaceSpaced(_, _, _, _, _)
ReplaceSpaced(s, open, close, rep, p) ==
    LET q == FindFrom(s, open, p) IN
    IF q = 0 THEN Tail_(s, p)
    ELSE LET e == SkipSpace(s, q + Len(open)) IN
         IF StartsAt(s, e, close)
         THEN SubSeq(s, p, q - 1) \o rep
                  \o ReplaceSpaced(s, open, close, rep, e + Len(close))
         ELSE SubSeq(s, p, q) \o ReplaceSpaced(s, open, close, rep, q + 1)

fix_self_closing_tags(s) ==
    LET br == ReplaceSpaced(s, BrOpen, <<">">>, BrClosed, 1)
    IN  ReplaceSpaced(br, HrOpen, <<">">>, HrClosed, 1)

fix_malformed_html(s) ==
    LET tr == ReplaceSpaced(s, TrTag, TableClose, TableClose, 1)
    IN  ReplaceSpaced(tr, TrTag, TrClose, <<>>, 1)

-----------------------------------------------------------------------------
(* Inline-style rewriter.                                                  *)

\* char::to_uppercase, first character of the mapping.
Upper(c) ==
    CASE c = "a" -> "A" [] c = "b" -> "B" [] c = "c" -> "C" [] c = "d" -> "D"
      [] c = "e" -> "E" [] c = "f" -> "F" [] c = "g" -> "G" [] c = "h" -> "H"
      [] c = "i" -> "I" [] c = "j" -> "J" [] c = "k" -> "K" [] c = "l" -> "L"
      [] c = "m" -> "M" [] c = "n" -> "N" [] c = "o" -> "O" [] c = "p" -> "P"
      [] c = "q" -> "Q" [] c = "r" -> "R" [] c = "s" -> "S" [] c = "t" -> "T"
      [] c = "u" -> "U" [] c = "v" -> "V" [] c = "w" -> "W" [] c = "x" -> "X"
      [] c = "y" -> "Y" [] c = "z" -> "Z" [] OTHER -> c

\* The loop over parts[1..]: an empty part adds nothing, any other part is
\* added with its first character upper-cased.
RECURSIVE CamelParts(_)
CamelParts(parts) ==
    IF Len(parts) = 0 THEN <<>>
    ELSE LET part == parts[1] IN
         (IF Len(part) = 0 THEN <<>> ELSE <<Upper(part[1])>> \o Tail(part))
             \o CamelParts(Tail(parts))

\* A conversion that leaves the property name as it is written.
KebabCase(prop) == prop

css_property_to_camel_case(prop) ==
    LET parts == Split(Trim(prop), "-")
    IN  parts[1] \o CamelParts(Tail(parts))

\* The loop over style_str.split(';'): the jsx_props of the segments.
RECURSIVE JsxProps(_)
JsxProps(props) ==
    IF Len(props) = 0 THEN <<>>
    ELSE LET prop == Trim(props[1])
             colon == FindFrom(prop, <<":">>, 1)
         IN  IF Len(prop) = 0 \/ colon = 0 THEN JsxProps(Tail(props))
             ELSE LET name == css_property_to_camel_case(
                                  Trim(SubSeq(prop, 1, colon - 1)))
                      value == Trim(Tail_(prop, colon + 1))
                  IN  <<name \o <<":", " ", "\"">> \o value \o <<"\"">> >>
                          \o JsxProps(Tail(props))

\* The replacement closure of convert_style_to_jsx for one captured value.
StyleReplacement(style_str) ==
    LET jsx_props == JsxProps(Split(style_str, ";"))
    IN  IF Len(jsx_props) = 0 THEN <<>>
        ELSE StyleJsxOpen \o Join(jsx_props, <<",", " ">>) \o StyleJsxClose

\* Regex style="([^"]*)", every match replaced by the closure's result.
RECURSIVE ConvertStyleFrom(_, _)
ConvertStyleFrom(s, p) ==
    LET q == FindFrom(s, StyleOpen, p)
        e == IF q = 0 THEN 0 ELSE FindFrom(s, <<"\"">>, q + Len(StyleOpen))
    IN  IF e = 0 THEN Tail_(s, p)
        ELSE SubSeq(s, p, q - 1)
                 \o StyleReplacement(SubSeq(s, q + Len(StyleOpen), e - 1))
                 \o ConvertStyleFrom(s, e + 1)

convert_style_to_jsx(s) == ConvertStyleFrom(s, 1)

-----------------------------------------------------------------------------
(* Shortcode converter.                                                    *)

\* The common prefix \{\{% details title="([^"]*)"[^%]*%\}\} of re_single_line
\* and re_open, tried at position q: [ok, title, after (the position after the
\* match)].  [^"]* stops at the first quote and [^%]* at the first percent sign.
MatchOpener(s, q) ==
    LET quote == IF StartsAt(s, q, DetailsOpen)
                 THEN FindFrom(s, <<"\"">>, q + Len(DetailsOpen)) ELSE 0
        pct == IF quote = 0 THEN 0 ELSE FindFrom(s, <<"%">>, quote + 1)
    IN  IF pct # 0 /\ StartsAt(s, pct, ShortcodeEnd)
        THEN [ok |-> TRUE, title |-> SubSeq(s, q + Len(DetailsOpen), quote - 1),
              after |-> pct + Len(ShortcodeEnd)]
        ELSE [ok |-> FALSE, title |-> <<>>, after |-> 0]

\* (.+?)\s*\{\{% /details %\}\} with the body starting at b: the least body
\* length (no line feed in the body) after which white space and the closer
\* follow; 0 when there is none.
BodyLen(s, b, n) ==
    LET fits == {m \in n..(Len(s) - b + 1) :
                    StartsAt(s, SkipSpace(s, b + m), DetailsClose)}
        least == IF fits = {} THEN 0 ELSE Least(fits)
    IN  IF least # 0 /\ FindFrom(SubSeq(s, b, b + least - 1), <<NL>>, 1) = 0
        THEN least ELSE 0

\* \s*(.+?)...: the greedy \s* gives back one character at a time, from the
\* whole run of white space (b = top) down to none (b = after).
RECURSIVE BodyStart(_, _, _)
BodyStart(s, after, b) ==
    IF BodyLen(s, b, 1) # 0 THEN b
    ELSE IF b <= after THEN 0
    ELSE BodyStart(s, after, b - 1)

\* re_single_line.replace_all
RECURSIVE ReplaceSingleLine(_, _)
ReplaceSingleLine(s, p) ==
    LET q == FindFrom(s, DetailsOpen, p) IN
    IF q = 0 \/ FindFrom(s, DetailsClose, q) = 0 THEN Tail_(s, p)
    ELSE LET m == MatchOpener(s, q)
             b == IF m.ok THEN BodyStart(s, m.after, SkipSpace(s, m.after))
                  ELSE 0
         IN  IF b = 0
             THEN SubSeq(s, p, q) \o ReplaceSingleLine(s, q + 1)
             ELSE LET n == BodyLen(s, b, 1)
                      closer == SkipSpace(s, b + n)
                  IN  SubSeq(s, p, q - 1) \o AccordionTitle \o m.title
                          \o TagEnd \o <<NL>> \o SubSeq(s, b, b + n - 1)
                          \o <<NL>> \o AccordionClose
                          \o ReplaceSingleLine(s, closer + Len(DetailsClose))

\* re_open.replace_all
RECURSIVE ReplaceOpen(_, _)
ReplaceOpen(s, p) ==
    LET q == FindFrom(s, DetailsOpen, p) IN
    IF q = 0 THEN Tail_(s, p)
    ELSE LET m == MatchOpener(s, q) IN
         IF m.ok
         THEN SubSeq(s, p, q - 1) \o AccordionTitle \o m.title \o TagEnd
                  \o ReplaceOpen(s, m.after)
         ELSE SubSeq(s, p, q) \o ReplaceOpen(s, q + 1)

\* re_closing.replace_all: ([^\n])\s*\{\{% /details %\}\} becomes the captured
\* character, a line feed and the closing tag.
RECURSIVE ReplaceClosing(_, _)
ReplaceClosing(s, p) ==
    LET starts == {k \in p..Len(s) :
                      s[k] # NL /\ StartsAt(s, SkipSpace(s, k + 1), DetailsClose)}
    IN  IF starts = {} THEN Tail_(s, p)
        ELSE LET q == Least(starts)
                 closer == SkipSpace(s, q + 1)
             IN  SubSeq(s, p, q) \o <<NL>> \o AccordionClose
                     \o ReplaceClosing(s, closer + Len(DetailsClose))

\* str::lines: split at line feeds; a line ended by a line feed loses one
\* carriage return before it; an empty last piece is no line.
Lines(s) ==
    LET pieces == Split(s, NL)
        n == Len(pieces)
        strip(l) == IF Len(l) > 0 /\ l[Len(l)] = CR
                    THEN SubSeq(l, 1, Len(l) - 1) ELSE l
        ended == [k \in 1..(n - 1) |-> strip(pieces[k])]
    IN  IF Len(pieces[n]) = 0 THEN ended ELSE Append(ended, pieces[n])

\* A look-ahead that never sees a following block.
NoLookAhead(ls, i) == FALSE

\* The look-ahead of wrap_accordions_in_container after line i: the first
\* line that is not blank after trimming holds an opening tag.
RECURSIVE NextIsAccordion(_, _)
NextIsAccordion(ls, i) ==
    IF i + 1 > Len(ls) THEN FALSE
    ELSE LET next_line == Trim(ls[i + 1]) IN
         IF Len(next_line) = 0 THEN NextIsAccordion(ls, i + 1)
         ELSE Contains(next_line, AccordionOpen)

\* The depth after a line of an open sequence.
DepthAfter(d, line) ==
    LET opened == IF Contains(line, AccordionOpen) THEN d + 1 ELSE d
    IN  IF Contains(line, AccordionClose) THEN opened - 1 ELSE opened

\* One iteration of the for loop of wrap_accordions_in_container, on line i,
\* from the state st = [result, in_sequence, accordion_buffer, depth].
WrapStep(st, ls, i) ==
    LET line == ls[i] IN
    IF Contains(line, AccordionOpen) /\ ~st.in_sequence
    THEN [st EXCEPT !.in_sequence = TRUE,
                    !.accordion_buffer = Append(@, line),
                    !.depth = 1]
    ELSE IF st.in_sequence
    THEN LET buf == Append(st.accordion_buffer, line)
             d == DepthAfter(st.depth, line)
         IN  IF d = 0 /\ ~NextIsAccordion(ls, i)
             THEN [result |-> st.result \o <<AccordionsOpen>> \o buf
                                  \o <<AccordionsClose>>,
                   in_sequence |-> FALSE,
                   accordion_buffer |-> <<>>,
                   depth |-> d]
             ELSE [st EXCEPT !.accordion_buffer = buf, !.depth = d]
    ELSE [st EXCEPT !.result = Append(@, line)]

\* The end of the function as it would be without the check after the
\* loop: what is still buffered is not emitted.
TailDropped(st) == st.result

\* After the loop: a sequence still buffered is wrapped and emitted.
WrapEnd(st) ==
    IF Len(st.accordion_buffer) # 0
    THEN st.result \o <<AccordionsOpen>> \o st.accordion_buffer
             \o <<AccordionsClose>>
    ELSE st.result

WrapInit ==
    [result |-> <<>>, in_sequence |-> FALSE, accordion_buffer |-> <<>>,
     depth |-> 0]

RECURSIVE WrapLoop(_, _, _)
WrapLoop(st, ls, i) ==
    IF i > Len(ls) THEN st ELSE WrapLoop(WrapStep(st, ls, i), ls, i + 1)

wrap_accordions_in_container(s) ==
    Join(WrapEnd(WrapLoop(WrapInit, Lines(s), 1)), <<NL>>)

\* The four rewrites of convert_hugo_details_to_accordion before the wrapping.
ShortcodesToTags(s) ==
    LET single == ReplaceSingleLine(s, 1)
        opened == ReplaceOpen(single, 1)
        closed == ReplaceClosing(opened, 1)
    IN  Replace(closed, DetailsClose, AccordionClose)

convert_hugo_details_to_accordion(s) ==
    wrap_accordions_in_container(ShortcodesToTags(s))

-----------------------------------------------------------------------------
(* Placeholder vault: the code-block protection of both math passes.       *)

DigitChar(d) ==
    CASE d = 0 -> "0" [] d = 1 -> "1" [] d = 2 -> "2" [] d = 3 -> "3"
      [] d = 4 -> "4" [] d = 5 -> "5" [] d = 6 -> "6" [] d = 7 -> "7"
      [] d = 8 -> "8" [] OTHER -> "9"

\* The decimal digits of i, as format! writes them.
RECURSIVE Decimal(_)
Decimal(i) ==
    IF i < 10 THEN <<DigitChar(i)>>
    ELSE Decimal(i \div 10) \o <<DigitChar(i % 10)>>

\* format!("___CODE_BLOCK_PLACEHOLDER_{}___", i)
Placeholder(i) == PlaceholderHead \o Decimal(i) \o PlaceholderTail

\* code_block_re.find_iter(content): the matches of the fence regex (three
\* backquotes, lazily anything, three backquotes) from position p on, in
\* order, not overlapping.
RECURSIVE CodeBlocksFrom(_, _)
CodeBlocksFrom(s, p) ==
    LET q == FindFrom(s, Fence, p)
        e == IF q = 0 THEN 0 ELSE FindFrom(s, Fence, q + Len(Fence))
    IN  IF e = 0 THEN <<>>
        ELSE <<SubSeq(s, q, e + Len(Fence) - 1)>>
                 \o CodeBlocksFrom(s, e + Len(Fence))

CodeBlocks(s) == CodeBlocksFrom(s, 1)

\* The loop that replaces block i (0-based) by its placeholder: replacen of
\* the first occurrence of the block's text in the text protected so far.
RECURSIVE ProtectFrom(_, _, _)
ProtectFrom(protected, blocks, k) ==
    IF k > Len(blocks) THEN protected
    ELSE ProtectFrom(ReplaceFirst(protected, blocks[k], Placeholder(k - 1)),
                     blocks, k + 1)

\* A vault that protects nothing.
Unprotected(s) == s

Protect(s) == ProtectFrom(s, CodeBlocks(s), 1)

\* The loop that restores the blocks: replace of every occurrence of
\* placeholder i by block i, for i = 0, 1, ...
RECURSIVE RestoreFrom(_, _, _)
RestoreFrom(s, blocks, k) ==
    IF k > Len(blocks) THEN s
    ELSE RestoreFrom(Replace(s, Placeholder(k - 1), blocks[k]), blocks, k + 1)

Restore(s, blocks) == RestoreFrom(s, blocks, 1)

-----------------------------------------------------------------------------
(* Math normalizer: block math.                                            *)

\* A newline group that never takes the newline.
KeepNewline(s, p) == p

\* (\r?\n)? at position p, greedy: the position after it.
SkipNewline(s, p) ==
    IF StartsAt(s, p, <<CR, NL>>) THEN p + 2
    ELSE IF StartsAt(s, p, <<NL>>) THEN p + 1
    ELSE p

\* (\r?\n)?\$\$ matches at position k.
ClosesAt(s, k) == StartsAt(s, SkipNewline(s, k), Dollars)

\* ([\s\S]*?)(\r?\n)?\$\$ with the inner text starting at b: the lazy inner
\* text ends before the least k >= b at which the rest matches; 0 if none.
InnerEnd(s, b) ==
    LET ends == {k \in b..Len(s) : ClosesAt(s, k)}
    IN  IF ends = {} THEN 0 ELSE Least(ends)

\* The block-math regex tried at q, where $$ stands: the optional newline
\* after the opener is taken first and given up only if nothing matches then.
\* [b: start of the inner text, k: position after it]; b = 0 for no match.
MatchMathBlock(s, q) ==
    LET taken == SkipNewline(s, q + 2)
        k1 == InnerEnd(s, taken)
        k0 == InnerEnd(s, q + 2)
    IN  IF k1 # 0 THEN [b |-> taken, k |-> k1]
        ELSE IF k0 # 0 THEN [b |-> q + 2, k |-> k0]
        ELSE [b |-> 0, k |-> 0]

\* re.replace_all of the block-math regex: both branches of the closure
\* format the same text.
RECURSIVE ReplaceMathBlocks(_, _)
ReplaceMathBlocks(s, p) ==
    LET q == FindFrom(s, Dollars, p) IN
    IF q = 0 THEN Tail_(s, p)
    ELSE LET m == MatchMathBlock(s, q) IN
         IF m.b = 0 THEN SubSeq(s, p, q) \o ReplaceMathBlocks(s, q + 1)
         ELSE SubSeq(s, p, q - 1) \o MathFenceOpen
                  \o SubSeq(s, m.b, m.k - 1) \o MathFenceClose
                  \o ReplaceMathBlocks(s, SkipNewline(s, m.k) + 2)

convert_math_blocks(s) ==
    Restore(ReplaceMathBlocks(Protect(s), 1), CodeBlocks(s))

-----------------------------------------------------------------------------
(* Math normalizer: inline math.                                           *)

ScanInit == [result |-> <<>>, in_math |-> FALSE, math_buffer |-> <<>>]

\* A scanner that never looks back at what it emitted.
NeverEndsWithDollar(r) == FALSE

\* result.ends_with('$')
EndsWithDollar(r) == Len(r) > 0 /\ r[Len(r)] = "$"

\* A closing marker that would emit the span between single markers.
CloseSpanSingle(st) ==
    [result |-> st.result \o <<"$">> \o st.math_buffer \o <<"$">>,
     in_math |-> FALSE, math_buffer |-> <<>>]

\* The closing single marker: the buffered span goes out between double
\* markers.
CloseSpan(st) ==
    [result |-> st.result \o Dollars \o st.math_buffer \o Dollars,
     in_math |-> FALSE, math_buffer |-> <<>>]

\* A buffer that would put a backslash before a brace that has none.
BufferCharEscaped(st, ch) ==
    IF /\ ch \in {"{", "}"}
       /\ ~(Len(st.math_buffer) > 0
               /\ st.math_buffer[Len(st.math_buffer)] = "\\")
    THEN [st EXCEPT !.math_buffer = @ \o <<"\\", ch>>]
    ELSE [st EXCEPT !.math_buffer = Append(@, ch)]

\* math_buffer.push(ch)
BufferChar(st, ch) == [st EXCEPT !.math_buffer = Append(@, ch)]

\* One iteration of the while loop of convert_inline_math: the character
\* s[k] is taken, s[k + 1] (if any) is what chars.peek() shows.
ScanStep(st, s, k) ==
    LET ch == s[k]
        peek_dollar == k < Len(s) /\ s[k + 1] = "$"
        peek_newline == k < Len(s) /\ s[k + 1] = NL
    IN  IF ch = "$"
        THEN IF peek_dollar \/ EndsWithDollar(st.result)
             THEN [st EXCEPT !.result = Append(@, ch)]
             ELSE IF st.in_math
             THEN CloseSpan(st)
             ELSE IF peek_newline
             THEN [st EXCEPT !.result = Append(@, ch)]
             ELSE [st EXCEPT !.in_math = TRUE]
        ELSE IF st.in_math
        THEN IF ch = NL
             THEN [result |-> st.result \o <<"$">> \o st.math_buffer \o <<ch>>,
                   in_math |-> FALSE, math_buffer |-> <<>>]
             ELSE BufferChar(st, ch)
        ELSE [st EXCEPT !.result = Append(@, ch)]

\* After the loop: an unclosed span is emitted with its opening marker.
ScanEnd(st) ==
    IF st.in_math THEN st.result \o <<"$">> \o st.math_buffer ELSE st.result

\* The while loop over the characters lo..hi, in order.  The range is split
\* in halves, and the state after the left half is looked at before the right
\* half runs, only to keep the evaluation shallow.
RECURSIVE ScanLoop(_, _, _, _)
ScanLoop(st, s, lo, hi) ==
    IF lo > hi THEN st
    ELSE IF lo = hi THEN ScanStep(st, s, lo)
    ELSE LET mid == (lo + hi) \div 2
             left == ScanLoop(st, s, lo, mid)
         IN  IF left.in_math \in BOOLEAN
             THEN ScanLoop(left, s, mid + 1, hi)
             ELSE left

\* The scan of the protected text.
ScanInline(s) == ScanEnd(ScanLoop(ScanInit, s, 1, Len(s)))

convert_inline_math(s) == Restore(ScanInline(Protect(s)), CodeBlocks(s))

-----------------------------------------------------------------------------
(* Pipeline orchestrator.                                                  *)

\* Regex \n{3,} replaced by two line feeds.
RECURSIVE CollapseFrom(_, _)
CollapseFrom(s, p) ==
    LET q == FindFrom(s, <<NL, NL, NL>>, p) IN
    IF q = 0 THEN Tail_(s, p)
    ELSE LET rest == {k \in q..(Len(s) + 1) : k > Len(s) \/ s[k] # NL}
         IN  SubSeq(s, p, q - 1) \o <<NL, NL>> \o CollapseFrom(s, Least(rest))

\* A last pass that leaves the line feeds alone.
KeepBlankLines(s) == s

collapse_blank_lines(s) == CollapseFrom(s, 1)

format_mdx_file(s) ==
    collapse_blank_lines(
     convert_inline_math(
      convert_math_blocks(
       convert_hugo_details_to_accordion(
        convert_style_to_jsx(
         fix_malformed_html(
          fix_self_closing_tags(
           remove_shield_badges(
            remove_html_comments(s)))))))))

-----------------------------------------------------------------------------
(* Input texts: the concatenations of at most n fragments.                 *)

Texts(fragments, n) ==
    {Concat(f) : f \in UNION {[1..k -> fragments] : k \in 0..n}}

\* A details shortcode opener, as the tests write it.
DetailsT == DetailsOpen \o <<"T", "\"", " ">> \o ShortcodeEnd

\* The variables a function does not use keep these values.
IdleScan ==
    /\ protected_content = <<>> /\ code_blocks = <<>> /\ pos = 0
    /\ in_math = FALSE /\ math_buffer = <<>>

IdleWrap ==
    /\ lines = <<>> /\ idx = 0 /\ wrapped = <<>> /\ in_sequence = FALSE
    /\ accordion_buffer = <<>> /\ depth = 0

IdleRun == run = 1 /\ first_output = <<>>

IdleWalk ==
    /\ files = <<>> /\ disk = <<>> /\ entry = 0 /\ written = {}
    /\ modified_count = 0

scan_vars == <<protected_content, code_blocks, pos, in_math, math_buffer>>
wrap_vars == <<lines, idx, wrapped, in_sequence, accordion_buffer, depth>>
run_vars == <<run, first_output>>
walk_vars == <<files, disk, entry, written, modified_count>>

-----------------------------------------------------------------------------
(* format_mdx_file, pass by pass, and the formatter run again over the     *)
(* file it wrote (format_all_mdx_files reads, formats and writes back the  *)
(* files of the docs directory every time the program runs).               *)

MaxPipelineFrags == 3
MaxRuns == 2

PipelineFragments ==
    { <<"x">>, <<NL>>, <<"$">>, Fence, DetailsT, DetailsClose,
      <<"<", "!", "-", "-", "c", "-", "-", ">">>,
      <<"<", "b", "r", ">">>,
      <<"s", "t", "y", "l", "e", "=", "\"", "a", "-", "b", ":", "c", "\"">>,
      <<"<", "t", "r", ">", "<", "/", "t", "r", ">">>,
      <<"!", "[", "b", "]", "(">> \o BadgeHost \o <<"/", "x", ")">> }

Init ==
    /\ pc = "start"
    /\ content \in Texts(PipelineFragments, MaxPipelineFrags)
    /\ result = <<>>
    /\ IdleRun /\ IdleScan /\ IdleWrap /\ IdleWalk

\* A pass: result = f(&result), then on to the next statement.
Pass(at, out, next) ==
    /\ pc = at
    /\ result' = out
    /\ pc' = next
    /\ UNCHANGED <<content, run_vars, walk_vars, scan_vars, wrap_vars>>

Start == Pass("start", content, "remove_html_comments")

RemoveHtmlComments ==
    Pass("remove_html_comments", remove_html_comments(result),
         "remove_shield_badges")

\* The statement of badge removal as it would be with the removal left
\* out: the text goes on as it came.
BadgesKept ==
    Pass("remove_shield_badges", result, "fix_self_closing_tags")

RemoveShieldBadges ==
    Pass("remove_shield_badges", remove_shield_badges(result),
         "fix_self_closing_tags")

FixSelfClosingTags ==
    Pass("fix_self_closing_tags", fix_self_closing_tags(result),
         "fix_malformed_html")

FixMalformedHtml ==
    Pass("fix_malformed_html", fix_malformed_html(result),
         "convert_style_to_jsx")

\* A style pass that hands over to the math passes, past the shortcodes.
StyleThenMath ==
    Pass("convert_style_to_jsx", convert_style_to_jsx(result),
         "convert_math_blocks")

ConvertStyleToJsx ==
    Pass("convert_style_to_jsx", convert_style_to_jsx(result),
         "convert_hugo_details_to_accordion")

ConvertHugoDetailsToAccordion ==
    Pass("convert_hugo_details_to_accordion",
         convert_hugo_details_to_accordion(result), "convert_math_blocks")

ConvertMathBlocks ==
    Pass("convert_math_blocks", convert_math_blocks(result),
         "convert_inline_math")

ConvertInlineMath ==
    Pass("convert_inline_math", convert_inline_math(result),
         "collapse_blank_lines")

CollapseBlankLines ==
    Pass("collapse_blank_lines", collapse_blank_lines(result), "done")

\* The program runs again: the file holds what the last run returned.
Rerun ==
    /\ pc = "done"
    /\ run < MaxRuns
    /\ run' = run + 1
    /\ first_output' = result
    /\ content' = result
    /\ result' = <<>>
    /\ pc' = "start"
    /\ UNCHANGED <<scan_vars, wrap_vars, walk_vars>>

Next ==
    \/ Start
    \/ RemoveHtmlComments
    \/ RemoveShieldBadges
    \/ FixSelfClosingTags
    \/ FixMalformedHtml
    \/ ConvertStyleToJsx
    \/ ConvertHugoDetailsToAccordion
    \/ ConvertMathBlocks
    \/ ConvertInlineMath
    \/ CollapseBlankLines
    \/ Rerun

Spec == Init /\ [][Next]_vars

-----------------------------------------------------------------------------
(* Claims about the whole pipeline.                                        *)

\* C1 (as claimed): formatting the output of format_mdx_file again returns
\* it unchanged: a second run over the text the first run returned ends
\* with that same text.
C1_Idempotent ==
    (pc = "done" /\ run = 2) => result = first_output

\* A fenced region whose contents include a dollar sign, a brace or
\* shortcode-like text (which holds braces).
HasMarkup(block) ==
    \E k \in 1..Len(block) : block[k] \in {"$", "{", "}"}

\* C2 (as claimed): every fenced code region of the input whose contents
\* include $, { or } or shortcode-like text stands in the output of
\* format_mdx_file character for character.
C2_FencedCodeInviolate ==
    (pc = "done" /\ run = 1) =>
        \A k \in 1..Len(CodeBlocks(content)) :
            HasMarkup(CodeBlocks(content)[k])
                => Contains(result, CodeBlocks(content)[k])

-----------------------------------------------------------------------------
(* The math normalizer on its own: convert_math_blocks, convert_inline_math *)
(* and the two one after the other, as format_mdx_file calls them.          *)

MaxMathFrags == 5

\* Fenced code holding an inline span, and fenced code holding block math.
FencedInline == Fence \o <<"$", "a", "$">> \o Fence
FencedBlock == Fence \o <<"$", "$", "b", "$", "$">> \o Fence

MathFragments ==
    { <<"$">>, Dollars, <<"{">>, <<NL>>, <<"\\">>, FencedInline, FencedBlock }

InitMath ==
    /\ pc = "start"
    /\ content \in Texts(MathFragments, MaxMathFrags)
    /\ result = <<>>
    /\ IdleRun /\ IdleScan /\ IdleWrap /\ IdleWalk

\* convert_math_blocks(content)
MathBlocksPass ==
    /\ pc = "start"
    /\ result' = convert_math_blocks(content)
    /\ pc' = "blocks"
    /\ UNCHANGED <<content, run_vars, walk_vars, scan_vars, wrap_vars>>

\* convert_inline_math(content)
MathInlinePass ==
    /\ pc = "start"
    /\ result' = convert_inline_math(content)
    /\ pc' = "inline"
    /\ UNCHANGED <<content, run_vars, walk_vars, scan_vars, wrap_vars>>

\* result = convert_inline_math(&result), after convert_math_blocks
MathInlineAfterBlocks ==
    /\ pc = "blocks"
    /\ result' = convert_inline_math(result)
    /\ pc' = "normalized"
    /\ UNCHANGED <<content, run_vars, walk_vars, scan_vars, wrap_vars>>

NextMath ==
    \/ MathBlocksPass
    \/ MathInlinePass
    \/ MathInlineAfterBlocks

SpecMath == InitMath /\ [][NextMath]_vars

\* The texts between the fenced regions of s, from position p on: one more
\* than there are regions.
RECURSIVE GapsFrom(_, _)
GapsFrom(s, p) ==
    LET q == FindFrom(s, Fence, p)
        e == IF q = 0 THEN 0 ELSE FindFrom(s, Fence, q + Len(Fence))
    IN  IF e = 0 THEN <<Tail_(s, p)>>
        ELSE <<SubSeq(s, p, q - 1)>> \o GapsFrom(s, e + Len(Fence))

Gaps(s) == GapsFrom(s, 1)

\* gaps[1] blocks[1] gaps[2] ... blocks[n] gaps[n + 1]
RECURSIVE Weave(_, _)
Weave(gaps, blocks) ==
    IF Len(blocks) = 0 THEN gaps[1]
    ELSE gaps[1] \o blocks[1] \o Weave(Tail(gaps), Tail(blocks))

\* The texts of blocks stand in s from position p on, in this order and
\* without overlap.
RECURSIVE InOrder(_, _, _)
InOrder(s, blocks, p) ==
    IF Len(blocks) = 0 THEN TRUE
    ELSE LET q == FindFrom(s, blocks[1], p)
         IN  q # 0 /\ InOrder(s, Tail(blocks), q + Len(blocks[1]))

\* The inline scan of gap g alone ends outside math mode: no span of g is
\* left open across the fenced region that follows.
InlineClosed(g) == ~ScanLoop(ScanInit, g, 1, Len(g)).in_math

\* The block-math rewriting of gap g alone leaves no double marker behind:
\* no region of g is left open across the fenced region that follows.
BlocksClosed(g) == ~Contains(ReplaceMathBlocks(g, 1), Dollars)

MapGaps(gaps, Op(_)) == [k \in 1..Len(gaps) |-> Op(gaps[k])]

InlineOf(g) == ScanInline(g)
BlocksOf(g) == ReplaceMathBlocks(g, 1)

\* C3: for an input without the placeholder sentinel, convert_math_blocks
\* and convert_inline_math each keep every fenced code region as it is, in
\* the same order, and when no span runs across a fenced region the output
\* is the fenced regions, untouched, between the conversions of the texts
\* around them, for any number of fenced regions.
C3_FencedExempt ==
    (pc \in {"blocks", "inline"} /\ ~Contains(content, PlaceholderHead)) =>
        LET blocks == CodeBlocks(content)
            gaps == Gaps(content)
        IN  /\ InOrder(result, blocks, 1)
            /\ (pc = "inline" /\ \A k \in 1..Len(gaps) : InlineClosed(gaps[k]))
                   => result = Weave(MapGaps(gaps, InlineOf), blocks)
            /\ (pc = "blocks" /\ \A k \in 1..Len(gaps) : BlocksClosed(gaps[k]))
                   => result = Weave(MapGaps(gaps, BlocksOf), blocks)

\* C3 witness: two fenced regions holding math markers came out of the
\* inline pass untouched, while the span between them was converted.
C3_Witness ==
    /\ pc = "inline"
    /\ content = FencedInline \o <<"$", "{", "$">> \o FencedBlock
    /\ Len(CodeBlocks(content)) = 2
    /\ result = FencedInline \o <<"$", "$", "{", "$", "$">> \o FencedBlock

\* The braces and backslashes of a text, in order.
BraceText(s) == SelectSeq(s, LAMBDA c : c \in {"{", "}", "\\"})

\* One inline span and nothing else: $inner$, inner without marker or
\* newline and not empty.
IsSingleSpan(s) ==
    /\ Len(s) >= 3
    /\ s[1] = "$" /\ s[Len(s)] = "$"
    /\ \A k \in 2..(Len(s) - 1) : s[k] \notin {"$", NL}

\* C8 (amended): the math normalizer escapes no brace and inserts no
\* backslash: the braces and backslashes of the output are those of the
\* input, in the same order, and a span $inner$ comes out as $$inner$$ with
\* its braces as they were.
C8_BracesCopied ==
    /\ pc \in {"blocks", "inline", "normalized"}
           => BraceText(result) = BraceText(content)
    /\ (pc \in {"inline", "normalized"} /\ IsSingleSpan(content))
           => result = <<"$">> \o content \o <<"$">>

\* C8 witness: a span holding a brace without backslash and one with went
\* through the normalizer and came out between double markers, no backslash
\* added.
C8_Witness ==
    /\ pc = "normalized"
    /\ content = <<"$", "{", "\\", "{", "$">>
    /\ result = <<"$", "$", "{", "\\", "{", "$", "$">>

\* C8 (as claimed): after the math normalizer every brace inside a math
\* span is preceded by a backslash.
C8_BracesEscaped ==
    (pc = "normalized" /\ IsSingleSpan(content)) =>
        \A k \in 1..Len(result) :
            result[k] \in {"{", "}"} => (k > 1 /\ result[k - 1] = "\\")

-----------------------------------------------------------------------------
(* convert_math_blocks over texts built from double markers, newlines and  *)
(* carriage returns.                                                       *)

MaxBlockFrags == 5

BlockFragments ==
    { Dollars, <<"$">>, <<"x">>, <<NL>>, <<CR, NL>>, FencedBlock }

InitBlocks ==
    /\ pc = "start"
    /\ content \in Texts(BlockFragments, MaxBlockFrags)
    /\ result = <<>>
    /\ IdleRun /\ IdleScan /\ IdleWrap /\ IdleWalk

\* convert_math_blocks(content)
BlockMath ==
    /\ pc = "start"
    /\ result' = convert_math_blocks(content)
    /\ pc' = "blocks"
    /\ UNCHANGED <<content, run_vars, walk_vars, scan_vars, wrap_vars>>

NextBlocks == BlockMath

SpecBlocks == InitBlocks /\ [][NextBlocks]_vars

\* A text without one newline at its start, and without one at its end.
DropLeadingNewline(t) ==
    IF StartsAt(t, 1, <<CR, NL>>) THEN Tail_(t, 3)
    ELSE IF StartsAt(t, 1, <<NL>>) THEN Tail_(t, 2)
    ELSE t

DropTrailingNewline(t) ==
    IF Len(t) >= 2 /\ StartsAt(t, Len(t) - 1, <<CR, NL>>)
    THEN SubSeq(t, 1, Len(t) - 2)
    ELSE IF Len(t) >= 1 /\ t[Len(t)] = NL THEN SubSeq(t, 1, Len(t) - 1)
    ELSE t

\* What C4 describes, from position p on: each double marker that has a
\* double marker after it opens a region closed by the first of these; the
\* region becomes a math fence around the text between the two, less one
\* newline next to each; everything else is copied.
RECURSIVE BlockMathOf(_, _)
BlockMathOf(s, p) ==
    LET q == FindFrom(s, Dollars, p)
        c == IF q = 0 THEN 0 ELSE FindFrom(s, Dollars, q + 2)
    IN  IF c = 0 THEN Tail_(s, p)
        ELSE SubSeq(s, p, q - 1) \o MathFenceOpen
                 \o DropTrailingNewline(DropLeadingNewline(
                        SubSeq(s, q + 2, c - 1)))
                 \o MathFenceClose \o BlockMathOf(s, c + 2)

ExpectedBlocksOf(g) == BlockMathOf(g, 1)

-----------------------------------------------------------------------------
(* convert_inline_math, one character of the protected text at a time.     *)

MaxInlineFrags == 5

\* An inline span with a brace in it, a blank on either side.
SpacedSpan == <<" ", "$", "b", "{", "$", " ">>

InlineFragments ==
    { <<"$">>, <<"a">>, <<NL>>, SpacedSpan, FencedInline }

InitInline ==
    /\ pc = "start"
    /\ content \in Texts(InlineFragments, MaxInlineFrags)
    /\ result = <<>>
    /\ IdleRun /\ IdleScan /\ IdleWrap /\ IdleWalk

\* The blocks are put in the vault, and the scanner's variables are set up.
InlineProtect ==
    /\ pc = "start"
    /\ code_blocks' = CodeBlocks(content)
    /\ protected_content' = Protect(content)
    /\ result' = ScanInit.result
    /\ in_math' = ScanInit.in_math
    /\ math_buffer' = ScanInit.math_buffer
    /\ pos' = 0
    /\ pc' = "scan"
    /\ UNCHANGED <<content, run_vars, walk_vars, wrap_vars>>

\* The scanner's variables as one record.
ScanState ==
    [result |-> result, in_math |-> in_math, math_buffer |-> math_buffer]

\* The loop as it would be with chars.peek() in the place of chars.next():
\* the character is handled and the cursor stays where it was.
ScanPeek ==
    /\ pc = "scan"
    /\ pos < Len(protected_content)
    /\ LET st == ScanStep(ScanState, protected_content, pos + 1)
       IN  /\ result' = st.result
           /\ in_math' = st.in_math
           /\ math_buffer' = st.math_buffer
    /\ UNCHANGED <<pc, pos, content, protected_content, code_blocks,
                   run_vars, walk_vars, wrap_vars>>

\* One iteration of the while loop: chars.next() gives character pos + 1.
ScanChar ==
    /\ pc = "scan"
    /\ pos < Len(protected_content)
    /\ LET st == ScanStep(ScanState, protected_content, pos + 1)
       IN  /\ result' = st.result
           /\ in_math' = st.in_math
           /\ math_buffer' = st.math_buffer
    /\ pos' = pos + 1
    /\ UNCHANGED <<pc, content, protected_content, code_blocks, run_vars,
                   walk_vars, wrap_vars>>

\* chars.next() gives None: the unclosed span, if any, is emitted.
ScanFinish ==
    /\ pc = "scan"
    /\ pos = Len(protected_content)
    /\ result' = ScanEnd(ScanState)
    /\ pc' = "restore"
    /\ UNCHANGED <<content, protected_content, code_blocks, pos, in_math,
                   math_buffer, run_vars, walk_vars, wrap_vars>>

\* The blocks are put back in place of their placeholders.
InlineRestore ==
    /\ pc = "restore"
    /\ result' = Restore(result, code_blocks)
    /\ pc' = "done"
    /\ UNCHANGED <<content, protected_content, code_blocks, pos, in_math,
                   math_buffer, run_vars, walk_vars, wrap_vars>>

NextInline ==
    \/ InlineProtect
    \/ ScanChar
    \/ ScanFinish
    \/ InlineRestore

SpecInline == InitInline /\ [][NextInline]_vars

\* The marker at position k of s has a marker next to it.
HasNeighbour(s, k) ==
    \/ k > 1 /\ s[k - 1] = "$"
    \/ k < Len(s) /\ s[k + 1] = "$"

\* The positions of the markers of s that stand alone.
Isolated(s) == {k \in 1..Len(s) : s[k] = "$" /\ ~HasNeighbour(s, k)}

\* No fenced code, every marker stands alone, and every line has its markers
\* in pairs: each opening marker has its closing marker on the same line.
Promotable(s) ==
    /\ CodeBlocks(s) = <<>>
    /\ \A k \in 1..Len(s) : s[k] = "$" => ~HasNeighbour(s, k)
    /\ \A n \in 1..Len(Split(s, NL)) : Count(Split(s, NL)[n], "$") % 2 = 0

\* C5: for an input without fenced code whose markers stand alone and are
\* paired on their line, convert_inline_math returns the input with every
\* span $inner$ turned into $$inner$$, inner and the text around the spans
\* copied as they are: every marker doubled, nothing else changed.
C5_InlinePromotion ==
    (pc = "done" /\ Promotable(content)) =>
        result = Replace(content, <<"$">>, Dollars)

\* C5 witness: two spans, one of them with a brace, were promoted.
C5_Witness ==
    /\ pc = "done"
    /\ Promotable(content)
    /\ Count(content, "$") = 4
    /\ Contains(content, <<"{">>)
    /\ Count(result, "$") = 8

\* Every marker of s has a marker next to it.
AllPaired(s) == \A k \in 1..Len(s) : s[k] = "$" => HasNeighbour(s, k)

\* The scanner takes a marker that has a marker next to it.
TakesPairedMarker ==
    /\ pc = "scan"
    /\ pos < Len(protected_content)
    /\ pos' = pos + 1
    /\ protected_content[pos + 1] = "$"
    /\ HasNeighbour(protected_content, pos + 1)

\* C6: a marker that has a marker next to it is emitted as it is and
\* neither opens nor closes math mode, and an input whose markers all have
\* a marker next to them is returned unchanged.
C6_DoublePassThrough ==
    /\ [][TakesPairedMarker =>
              /\ result' = Append(result, "$")
              /\ in_math' = in_math
              /\ math_buffer' = math_buffer]_vars
    /\ []((pc = "done" /\ AllPaired(content)) => result = content)

\* C6 witness: a text with double markers and something between them came
\* back unchanged.
C6_Witness ==
    /\ pc = "done"
    /\ AllPaired(content)
    /\ content = <<"$", "$", "a", "$", "$">>
    /\ result = content

\* C7 (as claimed): an input in which no single marker has a closing single
\* marker on its line (each line has at most one marker standing alone) is
\* returned unchanged.
C7_UnclosedUnchanged ==
    (pc = "done"
        /\ \A n \in 1..Len(Split(content, NL)) :
               Cardinality(Isolated(Split(content, NL)[n])) <= 1)
        => result = content

-----------------------------------------------------------------------------
(* convert_hugo_details_to_accordion: the four rewrites, then the loop of  *)
(* wrap_accordions_in_container one line at a time.                        *)

MaxItems == 5

\* The tag a details opener with title T becomes.
AccordionT == AccordionTitle \o <<"T">> \o TagEnd

\* What a document is made of here: a shortcode block written on one line,
\* one written on three lines, a blank line and a line of ordinary text.
\* Each item is the list of its lines.
SingleLineBlock == <<DetailsT \o <<"x">> \o DetailsClose>>
MultiLineBlock == <<DetailsT, <<"y">>, DetailsClose>>
BlankLine == << <<>> >>
TextLine == << <<"t">> >>

Items == {SingleLineBlock, MultiLineBlock, BlankLine, TextLine}

\* The lines of a sequence of items, joined by line feeds.
Document(items) == Join(Concat(items), <<NL>>)

InitAccordion ==
    /\ pc = "start"
    /\ content \in {Document(items) :
                       items \in UNION {[1..k -> Items] : k \in 0..MaxItems}}
    /\ result = <<>>
    /\ IdleRun /\ IdleScan /\ IdleWrap /\ IdleWalk

\* A rewrite of convert_hugo_details_to_accordion.
Rewrite(at, out, next) ==
    /\ pc = at
    /\ result' = out
    /\ pc' = next
    /\ UNCHANGED <<content, run_vars, walk_vars, scan_vars, wrap_vars>>

ReplaceSingleLineShortcodes ==
    Rewrite("start", ReplaceSingleLine(content, 1), "re_open")

ReplaceOpeningTags ==
    Rewrite("re_open", ReplaceOpen(result, 1), "re_closing")

ReplaceClosingTags ==
    Rewrite("re_closing", ReplaceClosing(result, 1), "standalone")

ReplaceStandaloneClosingTags ==
    Rewrite("standalone", Replace(result, DetailsClose, AccordionClose),
            "wrap")

\* wrap_accordions_in_container is entered: the lines are collected and the
\* loop's variables set up.
WrapStart ==
    /\ pc = "wrap"
    /\ lines' = Lines(result)
    /\ idx' = 0
    /\ wrapped' = WrapInit.result
    /\ in_sequence' = WrapInit.in_sequence
    /\ accordion_buffer' = WrapInit.accordion_buffer
    /\ depth' = WrapInit.depth
    /\ pc' = "loop"
    /\ UNCHANGED <<content, result, run_vars, walk_vars, scan_vars>>

\* The loop's variables as one record.
WrapState ==
    [result |-> wrapped, in_sequence |-> in_sequence,
     accordion_buffer |-> accordion_buffer, depth |-> depth]

\* One iteration of the for loop, on line idx + 1.
WrapLine ==
    /\ pc = "loop"
    /\ idx < Len(lines)
    /\ LET st == WrapStep(WrapState, lines, idx + 1)
       IN  /\ wrapped' = st.result
           /\ in_sequence' = st.in_sequence
           /\ accordion_buffer' = st.accordion_buffer
           /\ depth' = st.depth
    /\ idx' = idx + 1
    /\ UNCHANGED <<pc, content, result, lines, run_vars, walk_vars, scan_vars>>

\* After the loop: the buffered sequence, if any, is emitted, and the lines
\* are joined.
WrapFinish ==
    /\ pc = "loop"
    /\ idx = Len(lines)
    /\ result' = Join(WrapEnd(WrapState), <<NL>>)
    /\ pc' = "done"
    /\ UNCHANGED <<content, lines, idx, wrapped, in_sequence,
                   accordion_buffer, depth, run_vars, walk_vars, scan_vars>>

NextAccordion ==
    \/ ReplaceSingleLineShortcodes
    \/ ReplaceOpeningTags
    \/ ReplaceClosingTags
    \/ ReplaceStandaloneClosingTags
    \/ WrapStart
    \/ WrapLine
    \/ WrapFinish

SpecAccordion == InitAccordion /\ [][NextAccordion]_vars

\* The lines of a document: the pieces between line feeds, a last empty
\* piece left out.
DocumentLines(s) ==
    LET pieces == Split(s, NL)
    IN  IF Len(pieces[Len(pieces)]) = 0
        THEN SubSeq(pieces, 1, Len(pieces) - 1) ELSE pieces

\* The item that starts at line i of ls: its kind, how many lines it takes
\* and the lines it is expected to become.
ItemAt(ls, i) ==
    IF ls[i] = SingleLineBlock[1]
    THEN [kind |-> "block", len |-> 1,
          out |-> <<AccordionT, <<"x">>, AccordionClose>>]
    ELSE IF ls[i] = DetailsT
    THEN [kind |-> "block", len |-> 3,
          out |-> <<AccordionT, <<"y">>, AccordionClose>>]
    ELSE IF ls[i] = <<>>
    THEN [kind |-> "blank", len |-> 1, out |-> << <<>> >>]
    ELSE [kind |-> "text", len |-> 1, out |-> <<ls[i]>>]

\* The first line at or after i that is not blank; Len(ls) + 1 if none.
RECURSIVE SkipBlank(_, _)
SkipBlank(ls, i) ==
    IF i <= Len(ls) /\ ls[i] = <<>> THEN SkipBlank(ls, i + 1) ELSE i

\* A block starts at line i: the line after the last block of the maximal
\* run of blocks separated only by blank lines.
RECURSIVE RunEnd(_, _)
RunEnd(ls, i) ==
    LET after == i + ItemAt(ls, i).len
        k == SkipBlank(ls, after)
    IN  IF k <= Len(ls) /\ ItemAt(ls, k).kind = "block"
        THEN RunEnd(ls, k) ELSE after

\* The expected lines of the items from line i up to line e (not included).
RECURSIVE ItemLines(_, _, _)
ItemLines(ls, i, e) ==
    IF i >= e THEN <<>>
    ELSE ItemAt(ls, i).out \o ItemLines(ls, i + ItemAt(ls, i).len, e)

\* What C9 describes, from line i on: each maximal run inside one pair of
\* container tags, every other line as it is.
RECURSIVE Grouped(_, _)
Grouped(ls, i) ==
    IF i > Len(ls) THEN <<>>
    ELSE IF ItemAt(ls, i).kind = "block"
    THEN <<AccordionsOpen>> \o ItemLines(ls, i, RunEnd(ls, i))
             \o <<AccordionsClose>> \o Grouped(ls, RunEnd(ls, i))
    ELSE ItemAt(ls, i).out \o Grouped(ls, i + 1)

\* C9: after the shortcode converter each maximal run of closed blocks
\* separated only by blank lines stands inside exactly one pair of container
\* tags, the blank lines between the blocks inside it, and blocks separated
\* by a line of ordinary text get a pair each with the text between the
\* pairs.
C9_AccordionGrouping ==
    pc = "done" =>
        result = Join(Grouped(DocumentLines(content), 1), <<NL>>)

\* C9 witness: a block, a blank line and a second block came out in one
\* pair, and the block after a line of text in a pair of its own.
C9_Witness ==
    /\ pc = "done"
    /\ content = Document(<<SingleLineBlock, BlankLine, MultiLineBlock,
                            TextLine, SingleLineBlock>>)
    /\ Lines(result) =
           <<AccordionsOpen, AccordionT, <<"x">>, AccordionClose, <<>>,
             AccordionT, <<"y">>, AccordionClose, AccordionsClose,
             <<"t">>,
             AccordionsOpen, AccordionT, <<"x">>, AccordionClose,
             AccordionsClose>>

-----------------------------------------------------------------------------
(* convert_style_to_jsx over tags with two style attributes.               *)

MaxDecls == 4

\* The segments a style value is made of here, each with the pair C10 gives
\* for it (none for a segment that is empty or has no colon).
StyleTable ==
    { [css |-> <<"t", "e", "x", "t", "-", "a", "l", "i", "g", "n", ":",
                 "c", "e", "n", "t", "e", "r">>,
       jsx |-> <<"t", "e", "x", "t", "A", "l", "i", "g", "n", ":", " ",
                 "\"", "c", "e", "n", "t", "e", "r", "\"">>],
      [css |-> <<" ", "c", "o", "l", "o", "r", " ", ":", " ", "r", "e", "d",
                 " ">>,
       jsx |-> <<"c", "o", "l", "o", "r", ":", " ", "\"", "r", "e", "d",
                 "\"">>],
      [css |-> <<"a", ":", "b", ":", "c">>,
       jsx |-> <<"a", ":", " ", "\"", "b", ":", "c", "\"">>],
      [css |-> <<"-", "x", "-", "-", "y", ":", "1">>,
       jsx |-> <<"X", "Y", ":", " ", "\"", "1", "\"">>],
      [css |-> <<"x">>, jsx |-> <<>>],
      [css |-> <<>>, jsx |-> <<>>] }

Segments == {row.css : row \in StyleTable}

\* style="V" for the value V made of the segments segs.
StyleAttribute(segs) == StyleOpen \o Join(segs, <<";">>) \o <<"\"">>

\* A tag with two style attributes: the first has the first cut segments
\* (all of them if there are fewer), the second the others.
Tag(segs, cut) ==
    LET n == IF cut < Len(segs) THEN cut ELSE Len(segs)
    IN  <<"<", "p", " ">> \o StyleAttribute(SubSeq(segs, 1, n)) \o <<" ">>
            \o StyleAttribute(SubSeq(segs, n + 1, Len(segs))) \o <<">">>

InitStyle ==
    /\ pc = "start"
    /\ content \in {Tag(segs, cut) :
                       segs \in UNION {[1..k -> Segments] : k \in 0..MaxDecls},
                       cut \in 0..MaxDecls}
    /\ result = <<>>
    /\ IdleRun /\ IdleScan /\ IdleWrap /\ IdleWalk

\* convert_style_to_jsx(content)
StyleToJsx ==
    /\ pc = "start"
    /\ result' = convert_style_to_jsx(content)
    /\ pc' = "done"
    /\ UNCHANGED <<content, run_vars, walk_vars, scan_vars, wrap_vars>>

NextStyle == StyleToJsx

SpecStyle == InitStyle /\ [][NextStyle]_vars

\* The pair C10 gives for a segment.
JsxOf(seg) == (CHOOSE row \in StyleTable : row.css = seg).jsx

\* What C10 gives for the value V: the pairs of its segments that have one,
\* in order, between double braces, or nothing when there is no pair.
ExpectedAttribute(V) ==
    LET segs == Split(V, ";")
        pairs == SelectSeq([k \in 1..Len(segs) |-> JsxOf(segs[k])],
                           LAMBDA pair : pair # <<>>)
    IN  IF pairs = <<>> THEN <<>>
        ELSE StyleJsxOpen \o Join(pairs, <<",", " ">>) \o StyleJsxClose

\* What C10 gives for the text s from position p on: every style="V"
\* replaced, everything else copied.
RECURSIVE ExpectedStyle(_, _)
ExpectedStyle(s, p) ==
    LET q == FindFrom(s, StyleOpen, p)
        e == IF q = 0 THEN 0 ELSE FindFrom(s, <<"\"">>, q + Len(StyleOpen))
    IN  IF e = 0 THEN Tail_(s, p)
        ELSE SubSeq(s, p, q - 1)
                 \o ExpectedAttribute(SubSeq(s, q + Len(StyleOpen), e - 1))
                 \o ExpectedStyle(s, e + 1)

\* C10: every style="V" is replaced by style={{p1: "v1", ...}}, the pairs
\* being those of the segments of V between semicolons that are not empty
\* and hold a colon, in order, each split at its first colon, the name in
\* camelCase, name and value trimmed; when no segment has a pair the whole
\* attribute is removed.
C10_StyleRewriting ==
    pc = "done" => result = ExpectedStyle(content, 1)

\* C10 witness: an attribute with a kebab-case name, a second colon and a
\* segment without colon was rewritten, and an empty attribute removed.
C10_Witness ==
    /\ pc = "done"
    /\ content = Tag(<<(<<"t", "e", "x", "t", "-", "a", "l", "i", "g", "n",
                          ":", "c", "e", "n", "t", "e", "r">>),
                       (<<"a", ":", "b", ":", "c">>),
                       (<<"x">>)>>, 3)
    /\ result = <<"<", "p", " ">> \o StyleJsxOpen
           \o <<"t", "e", "x", "t", "A", "l", "i", "g", "n", ":", " ", "\"",
                "c", "e", "n", "t", "e", "r", "\"", ",", " ",
                "a", ":", " ", "\"", "b", ":", "c", "\"">>
           \o StyleJsxClose \o <<" ", ">">>
    /\ ~Contains(result, StyleOpen)

-----------------------------------------------------------------------------
(* The last statement of format_mdx_file, on texts of line feeds, carriage *)
(* returns and a letter.                                                   *)

MaxCollapseFrags == 6

CollapseFragments == { <<"x">>, <<NL>>, <<CR>> }

InitCollapse ==
    /\ pc = "collapse_blank_lines"
    /\ content \in Texts(CollapseFragments, MaxCollapseFrags)
    /\ result = content
    /\ IdleRun /\ IdleScan /\ IdleWrap /\ IdleWalk

\* re.replace_all(&result, two line feeds), the text before it kept in
\* content.
CollapseLast ==
    /\ pc = "collapse_blank_lines"
    /\ result' = collapse_blank_lines(result)
    /\ pc' = "done"
    /\ UNCHANGED <<content, run_vars, walk_vars, scan_vars, wrap_vars>>

NextCollapse == CollapseLast

SpecCollapse == InitCollapse /\ [][NextCollapse]_vars

\* The length of the maximal run of line feeds that starts at position p.
RunLength(s, p) ==
    Least({k \in p..(Len(s) + 1) : k > Len(s) \/ s[k] # NL}) - p

\* The text from position p on with every maximal run of three or more line
\* feeds cut down to two, and nothing else changed.
RECURSIVE RunsCut(_, _)
RunsCut(s, p) ==
    IF p > Len(s) THEN <<>>
    ELSE IF s[p] # NL THEN <<s[p]>> \o RunsCut(s, p + 1)
    ELSE LET r == RunLength(s, p)
         IN  (IF r >= 3 THEN <<NL, NL>> ELSE SubSeq(s, p, p + r - 1))
                 \o RunsCut(s, p + r)

\* C11 (amended): the last pass cuts every run of three or more line feeds
\* (two or more blank lines) down to exactly two line feeds (one blank line)
\* and changes nothing else: runs of one or two line feeds stay, and the
\* output has no three line feeds in a row.
C11_RunsOfLineFeedsCut ==
    pc = "done" =>
        /\ result = RunsCut(content, 1)
        /\ ~Contains(result, <<NL, NL, NL>>)

\* C11 witness: a run of three line feeds and a run of two went through the
\* pass; the first came out as two, the second as it was.
C11_Witness ==
    /\ pc = "done"
    /\ content = <<NL, NL, NL, "x", NL, NL>>
    /\ result = <<NL, NL, "x", NL, NL>>

\* The blank lines of s: the positions of the line feeds that end an empty
\* line.
BlankLineEnds(s) ==
    {k \in 1..Len(s) : s[k] = NL /\ (k = 1 \/ s[k - 1] = NL)}

\* C11 (as claimed): a text in which no three blank lines follow one
\* another, so that its blank lines come in runs of one or two, goes through
\* the last pass unchanged.
C11_TwoBlankLinesKept ==
    (pc = "done"
        /\ \A k \in BlankLineEnds(content) :
               ~({k + 1, k + 2} \subseteq BlankLineEnds(content)))
        => result = content

-----------------------------------------------------------------------------
(* The order of the passes of format_mdx_file.                             *)

\* The four passes of the structural cleaner, comments first.
Cleaned(t) ==
    fix_malformed_html(fix_self_closing_tags(
        remove_shield_badges(remove_html_comments(t))))

\* The math normalizer: block math, then inline math.
MathNormalized(t) == convert_inline_math(convert_math_blocks(t))

\* C12 (amended): format_mdx_file applies the structural cleaner, then the
\* style rewriter, then the shortcode converter, then the math normalizer
\* (block math, then inline math), then the blank-line collapse: when the
\* math passes start the shortcodes are already converted, and the text
\* returned is the one this order gives.
C12_ShortcodesBeforeMath ==
    /\ pc = "convert_hugo_details_to_accordion"
           => result = convert_style_to_jsx(Cleaned(content))
    /\ pc = "convert_math_blocks"
           => result = convert_hugo_details_to_accordion(
                           convert_style_to_jsx(Cleaned(content)))
    /\ pc = "done"
           => result = collapse_blank_lines(MathNormalized(
                           convert_hugo_details_to_accordion(
                               convert_style_to_jsx(Cleaned(content)))))

\* C12 witness: a closer between two markers went through the passes; the
\* closer was put on a line of its own before the inline pass saw the
\* markers, which therefore found no span to promote.
C12_Witness ==
    /\ pc = "done"
    /\ run = 1
    /\ content = <<"$">> \o DetailsClose \o <<"$">>
    /\ result = <<"$", NL>> \o AccordionClose \o <<"$">>

\* C12 (as claimed): the math normalizer runs before the shortcode
\* converter, so the text returned is the one that order gives.
C12_MathBeforeShortcodes ==
    pc = "done"
        => result = collapse_blank_lines(convert_hugo_details_to_accordion(
                        MathNormalized(convert_style_to_jsx(
                            Cleaned(content)))))

-----------------------------------------------------------------------------
(* format_mdx_file with its two loops step by step: the passes in order,   *)
(* the for loop of wrap_accordions_in_container one line at a time and the *)
(* while loop of convert_inline_math one character at a time.              *)

MaxTotalFrags == 3

\* Markers, fences and shortcode delimiters, matched or not.
TotalFragments ==
    { <<"$">>, <<"x">>, <<NL>>, Fence, DetailsT, DetailsClose }

InitTotal ==
    /\ pc = "start"
    /\ content \in Texts(TotalFragments, MaxTotalFrags)
    /\ result = <<>>
    /\ IdleRun /\ IdleScan /\ IdleWrap /\ IdleWalk

\* convert_hugo_details_to_accordion is entered: its four rewrites, up to
\* the call of wrap_accordions_in_container.
ShortcodeRewrites ==
    /\ pc = "convert_hugo_details_to_accordion"
    /\ result' = ShortcodesToTags(result)
    /\ pc' = "wrap"
    /\ UNCHANGED <<content, run_vars, walk_vars, scan_vars, wrap_vars>>

\* wrap_accordions_in_container returns to convert_hugo_details_to_accordion,
\* which returns to format_mdx_file.
WrapReturn ==
    /\ pc = "loop"
    /\ idx = Len(lines)
    /\ result' = Join(WrapEnd(WrapState), <<NL>>)
    /\ pc' = "convert_math_blocks"
    /\ UNCHANGED <<content, run_vars, walk_vars, scan_vars, wrap_vars>>

\* convert_inline_math is entered with the working string.
InlineEnter ==
    /\ pc = "convert_inline_math"
    /\ code_blocks' = CodeBlocks(result)
    /\ protected_content' = Protect(result)
    /\ result' = ScanInit.result
    /\ in_math' = ScanInit.in_math
    /\ math_buffer' = ScanInit.math_buffer
    /\ pos' = 0
    /\ pc' = "scan"
    /\ UNCHANGED <<content, run_vars, walk_vars, wrap_vars>>

\* convert_inline_math restores the blocks and returns to format_mdx_file.
InlineReturn ==
    /\ pc = "restore"
    /\ result' = Restore(result, code_blocks)
    /\ pc' = "collapse_blank_lines"
    /\ UNCHANGED <<content, protected_content, code_blocks, pos, in_math,
                   math_buffer, run_vars, walk_vars, wrap_vars>>

NextTotal ==
    \/ Start
    \/ RemoveHtmlComments
    \/ RemoveShieldBadges
    \/ FixSelfClosingTags
    \/ FixMalformedHtml
    \/ ConvertStyleToJsx
    \/ ShortcodeRewrites
    \/ WrapStart
    \/ WrapLine
    \/ WrapReturn
    \/ ConvertMathBlocks
    \/ InlineEnter
    \/ ScanChar
    \/ ScanFinish
    \/ InlineReturn
    \/ CollapseBlankLines

SpecTotal == InitTotal /\ [][NextTotal]_vars

\* The positions of format_mdx_file, in the order it goes through them.
Positions ==
    << "start", "remove_html_comments", "remove_shield_badges",
       "fix_self_closing_tags", "fix_malformed_html", "convert_style_to_jsx",
       "convert_hugo_details_to_accordion", "wrap", "loop",
       "convert_math_blocks", "convert_inline_math", "scan", "restore",
       "collapse_blank_lines", "done" >>

PositionOf(p) == CHOOSE k \in 1..Len(Positions) : Positions[k] = p

IsString(s) ==
    /\ DOMAIN s = 1..Len(s)
    /\ \A k \in 1..Len(s) : s[k] \in STRING

\* C13: for every input, the empty text and texts with unmatched markers,
\* unmatched shortcode delimiters, an unterminated fence or nothing but one
\* fenced region included, format_mdx_file and each of its passes returns a
\* string: the working value is a string at every position, both loops
\* always have a step to take until they leave, every step either moves to
\* a later position or stays in a loop and takes exactly one more character
\* of the scanned text, or one more line of the split text, neither of
\* which changes while the loop runs.
C13_Totality ==
    /\ [](/\ pc \in {Positions[k] : k \in 1..Len(Positions)}
          /\ IsString(result)
          /\ pc = "scan" => /\ pos <= Len(protected_content)
                            /\ ENABLED (ScanChar \/ ScanFinish)
          /\ pc = "loop" => /\ idx <= Len(lines)
                            /\ ENABLED (WrapLine \/ WrapReturn))
    /\ [][\/ PositionOf(pc') > PositionOf(pc)
          \/ /\ pc = "scan" /\ pc' = "scan"
             /\ pos' = pos + 1
             /\ protected_content' = protected_content
          \/ /\ pc = "loop" /\ pc' = "loop"
             /\ idx' = idx + 1
             /\ lines' = lines]_vars

\* C13 witness: a text with an unmatched marker, an opener without closer
\* and an unterminated fence went all the way through and came back.
C13_Witness ==
    /\ pc = "done"
    /\ content = <<"$">> \o DetailsT \o Fence
    /\ pos = Len(protected_content)
    /\ idx = Len(lines)
    /\ Len(result) > 0

-----------------------------------------------------------------------------
(* Shortcode delimiters without a partner.                                 *)

\* The positions at which lit occurs in s.
Occurrences(s, lit) == {k \in 1..Len(s) : StartsAt(s, k, lit)}

\* No opener of s has a closer after it: every opener lacks its closer and
\* every closer lacks its opener.
NoneMatched(s) ==
    \A i \in Occurrences(s, DetailsT) :
        \A j \in Occurrences(s, DetailsClose) : j < i

\* C14: when no opener of the document has a closer after it, the shortcode
\* conversion leaves every opener and every closer as the literal text it
\* was: no Accordion tag is written for an opener, none for a closer, and
\* nothing is wrapped in an Accordions container.
C14_UnmatchedLeftLiteral ==
    (pc = "convert_math_blocks" /\ NoneMatched(content)) =>
        /\ Occurrences(result, AccordionOpen) = {}
        /\ Occurrences(result, AccordionClose) = {}
        /\ Occurrences(result, AccordionsOpen) = {}
        /\ Cardinality(Occurrences(result, DetailsT))
               = Cardinality(Occurrences(content, DetailsT))
        /\ Cardinality(Occurrences(result, DetailsClose))
               = Cardinality(Occurrences(content, DetailsClose))

-----------------------------------------------------------------------------
(* format_all_mdx_files: the walk over the docs directory.  An entry of    *)
(* the walk is a file name's extension (none for a directory or a bare     *)
(* name) and the text it holds; reading and writing can fail.              *)

MaxFiles == 3

\* Extensions an entry can have: the one the filter asks for, the same in
\* capitals, another one, and none.
Extensions == {"mdx", "MDX", "md", ""}

\* Texts a file can hold: one the formatter returns as it is, one it
\* rewrites as math and one from which it rewrites a void tag.
FileTexts ==
    { <<"x">>, <<"$", "a", "$">>, <<"<", "b", "r", ">">> }

InitWalk ==
    /\ pc = "walk"
    /\ files \in UNION {[1..n -> [extension : Extensions, text : FileTexts]] :
                            n \in 0..MaxFiles}
    /\ disk = [k \in DOMAIN files |-> files[k].text]
    /\ entry = 0
    /\ written = {}
    /\ modified_count = 0
    /\ content = <<>> /\ result = <<>>
    /\ IdleRun /\ IdleScan /\ IdleWrap

\* The closure of the filter: the extension is there and is mdx.
IsMdx(e) == e.extension = "mdx"

\* The comparison that decides on the write, as it would be when every
\* formatted file counted as changed.
AlwaysChanged(formatted, original) == TRUE

\* formatted != original
Changed(formatted, original) == formatted # original

\* The filter drops the entry; the loop body does not run for it.
SkipEntry ==
    /\ pc = "walk"
    /\ entry < Len(files)
    /\ ~IsMdx(files[entry + 1])
    /\ entry' = entry + 1
    /\ UNCHANGED <<pc, content, result, files, disk, written, modified_count,
                   run_vars, scan_vars, wrap_vars>>

\* fs::read_to_string(path)? fails: the function returns the error.
ReadFails ==
    /\ pc = "walk"
    /\ entry < Len(files)
    /\ IsMdx(files[entry + 1])
    /\ pc' = "err"
    /\ UNCHANGED <<content, result, walk_vars, run_vars, scan_vars,
                   wrap_vars>>

\* The file is read and formatted and comes out as it went in.
KeepFile ==
    /\ pc = "walk"
    /\ entry < Len(files)
    /\ IsMdx(files[entry + 1])
    /\ content' = disk[entry + 1]
    /\ result' = format_mdx_file(disk[entry + 1])
    /\ ~Changed(result', content')
    /\ entry' = entry + 1
    /\ UNCHANGED <<pc, files, disk, written, modified_count, run_vars,
                   scan_vars, wrap_vars>>

\* The file is read and formatted, differs, and fs::write succeeds.
WriteFile ==
    /\ pc = "walk"
    /\ entry < Len(files)
    /\ IsMdx(files[entry + 1])
    /\ content' = disk[entry + 1]
    /\ result' = format_mdx_file(disk[entry + 1])
    /\ Changed(result', content')
    /\ disk' = [disk EXCEPT ![entry + 1] = result']
    /\ written' = written \cup {entry + 1}
    /\ modified_count' = modified_count + 1
    /\ entry' = entry + 1
    /\ UNCHANGED <<pc, files, run_vars, scan_vars, wrap_vars>>

\* The file is read and formatted, differs, and fs::write(path, formatted)?
\* fails: the function returns the error before it counts the file.
WriteFails ==
    /\ pc = "walk"
    /\ entry < Len(files)
    /\ IsMdx(files[entry + 1])
    /\ content' = disk[entry + 1]
    /\ result' = format_mdx_file(disk[entry + 1])
    /\ Changed(result', content')
    /\ pc' = "err"
    /\ UNCHANGED <<walk_vars, run_vars, scan_vars, wrap_vars>>

\* The walk is over: Ok(modified_count).
ReturnCount ==
    /\ pc = "walk"
    /\ entry = Len(files)
    /\ pc' = "ok"
    /\ UNCHANGED <<content, result, walk_vars, run_vars, scan_vars,
                   wrap_vars>>

NextWalk ==
    \/ SkipEntry
    \/ ReadFails
    \/ KeepFile
    \/ WriteFile
    \/ WriteFails
    \/ ReturnCount

SpecWalk == InitWalk /\ [][NextWalk]_vars

\* The entries the function has to rewrite: those with the mdx extension
\* whose formatted text differs from the text found.
ToRewrite ==
    {k \in 1..Len(files) :
        /\ files[k].extension = "mdx"
        /\ format_mdx_file(files[k].text) # files[k].text}

\* C15: of the entries the walk has gone through, exactly those with the
\* mdx extension whose formatted text differs from the original were
\* written, and they hold the formatted text; every other file holds the
\* text it was found with; and when the function returns Ok, every entry
\* has been gone through and the count returned is the number of files
\* written.
C15_PersistOnlyOnChange ==
    /\ written = {k \in ToRewrite : k <= entry}
    /\ \A k \in 1..Len(files) :
           disk[k] = IF k \in written THEN format_mdx_file(files[k].text)
                     ELSE files[k].text
    /\ pc = "ok" => /\ entry = Len(files)
                    /\ written = ToRewrite
                    /\ modified_count = Cardinality(written)

\* C15 witness: a walk over three entries returned Ok(1): the mdx file with
\* a math span was rewritten, the mdx file of plain text and the md file
\* with a math span were not.
C15_Witness ==
    /\ pc = "ok"
    /\ Len(files) = 3
    /\ files[1] = [extension |-> "mdx", text |-> <<"x">>]
    /\ files[2] = [extension |-> "md", text |-> <<"$", "a", "$">>]
    /\ files[3] = [extension |-> "mdx", text |-> <<"$", "a", "$">>]
    /\ written = {3}
    /\ disk[3] = <<"$", "$", "a", "$", "$">>
    /\ modified_count = 1

-----------------------------------------------------------------------------
(* Where the closing tags stand after the rewrites.                        *)

\* C16: after the four rewrites of the shortcodes, before the wrapping,
\* every closing tag written for a closer starts a line: it is at the start
\* of the text or right after a line feed.  (The documents here hold no
\* closing tag of their own, so every one in the result replaced a closer.)
C16_ClosersStartLine ==
    pc = "wrap" =>
        \A k \in Occurrences(result, AccordionClose) :
            k = 1 \/ result[k - 1] = NL

-----------------------------------------------------------------------------
(* wrap_accordions_in_container over lines that carry tags of their own,   *)
(* none, one or two to a line.                                             *)

MaxTagLines == 3

\* What a line is made of: an opening tag, a closing tag, ordinary text.
LineFragments == { AccordionT, AccordionClose, <<"x">> }

\* The lines: empty, or one or two fragments long.
TagLines == Texts(LineFragments, 2)

InitDepth ==
    /\ pc = "wrap"
    /\ content \in {Join(ls, <<NL>>) :
                       ls \in UNION {[1..n -> TagLines] : n \in 1..MaxTagLines}}
    /\ result = content
    /\ IdleRun /\ IdleScan /\ IdleWrap /\ IdleWalk

NextDepth ==
    \/ WrapStart
    \/ WrapLine
    \/ WrapFinish

SpecDepth == InitDepth /\ [][NextDepth]_vars

RECURSIVE TagsIn(_, _)
\* How many times the tag stands in the lines ls.
TagsIn(ls, tag) ==
    IF ls = <<>> THEN 0
    ELSE Cardinality(Occurrences(ls[1], tag)) + TagsIn(Tail(ls), tag)

\* C17: while a sequence is open, the depth after each line is the number
\* of opening tags less the number of closing tags on the lines taken since
\* the sequence started (the lines held in accordion_buffer), every tag of
\* every one of these lines counted, those of the starting line too.
C17_DepthCountsTags ==
    (pc = "loop" /\ in_sequence) =>
        depth = TagsIn(accordion_buffer, AccordionOpen)
                    - TagsIn(accordion_buffer, AccordionClose)

-----------------------------------------------------------------------------
(* The first four passes of format_mdx_file over texts in which a badge    *)
(* line, a void tag and a table row can lie across each other.             *)

MaxCleanerFrags == 5

BadgeT == <<"!", "[", "b", "]", "(">> \o BadgeHost \o <<"/", "x", ")">>

\* A comment with a stray tag in it.
CommentT == CommentOpen \o TrTag \o CommentClose

CleanerFragments ==
    { TrTag, TrClose, <<NL>>, BadgeT, BrOpen, <<">">>, CommentT }

InitCleaner ==
    /\ pc = "start"
    /\ content \in Texts(CleanerFragments, MaxCleanerFrags)
    /\ result = <<>>
    /\ IdleRun /\ IdleScan /\ IdleWrap /\ IdleWalk

NextCleaner ==
    \/ Start
    \/ RemoveHtmlComments
    \/ RemoveShieldBadges
    \/ FixSelfClosingTags
    \/ FixMalformedHtml

SpecCleaner == InitCleaner /\ [][NextCleaner]_vars

\* The three sub-operations applied to t in the order first, second, third.
InOrderOf(first(_), second(_), third(_), t) == third(second(first(t)))

\* What the six orders of the three sub-operations make of t.
SixOrders(t) ==
    { InOrderOf(remove_shield_badges, fix_self_closing_tags,
                fix_malformed_html, t),
      InOrderOf(remove_shield_badges, fix_malformed_html,
                fix_self_closing_tags, t),
      InOrderOf(fix_self_closing_tags, remove_shield_badges,
                fix_malformed_html, t),
      InOrderOf(fix_self_closing_tags, fix_malformed_html,
                remove_shield_badges, t),
      InOrderOf(fix_malformed_html, remove_shield_badges,
                fix_self_closing_tags, t),
      InOrderOf(fix_malformed_html, fix_self_closing_tags,
                remove_shield_badges, t) }

\* C18 (as the code has it): the sub-operations are applied in one order,
\* comment removal, then badge-line removal, then void-tag normalisation,
\* then table-row repair, and what the cleaner hands on is the result of
\* that order.
C18_CleanerOrder ==
    pc = "convert_style_to_jsx" =>
        result = InOrderOf(remove_shield_badges, fix_self_closing_tags,
                           fix_malformed_html, remove_html_comments(content))

\* C18 witness: a badge line between the two tags of a row.  The code's
\* order removes the line and then the row left empty; with the row repair
\* before the badge removal the row stays.
C18_Witness ==
    /\ pc = "convert_style_to_jsx"
    /\ content = TrTag \o <<NL>> \o BadgeT \o <<NL>> \o TrClose
    /\ result = <<>>
    /\ InOrderOf(fix_malformed_html, fix_self_closing_tags,
                 remove_shield_badges, content) = TrTag \o <<NL>> \o TrClose

\* C18 (as stated): after comment removal the three sub-operations give the
\* same result in each of their six orders.
C18_SubOperationsCommute ==
    pc = "convert_style_to_jsx" =>
        SixOrders(remove_html_comments(content)) = {result}

-----------------------------------------------------------------------------
(* What convert_inline_math does to the characters it is given.            *)

RECURSIVE Inserted(_, _, _, _)
\* r from position j on is s from position i on with markers put in: the
\* characters of s, in their order, and between them nothing but markers.
Inserted(s, i, r, j) ==
    IF j > Len(r) THEN i > Len(s)
    ELSE IF i <= Len(s) /\ s[i] = r[j] THEN Inserted(s, i + 1, r, j + 1)
    ELSE r[j] = "$" /\ Inserted(s, i, r, j + 1)

\* C19: for a text without fenced code, what convert_inline_math returns is
\* the text with markers inserted: every character of the text is there,
\* in the order it had, and every other character is a marker.
C19_OnlyInsertsMarkers ==
    (pc = "done" /\ ~Contains(content, Fence)) =>
        Inserted(content, 1, result, 1)

-----------------------------------------------------------------------------
(* Documents with nothing in them for the formatter to work on.            *)

\* What a pass looks for: none of it is in s.
TriggerFree(s) ==
    \A lit \in { CommentOpen, BadgeHost, BrOpen, HrOpen, TrTag,
                 <<"s", "t", "y", "l", "e", "=">>,
                 <<"{", "{", "%">>, AccordionOpen, <<"$">>, Fence,
                 <<NL, NL, NL>> } :
        ~Contains(s, lit)

\* C20: a document with no comment marker, badge host, br, hr or tr tag,
\* style attribute, shortcode, Accordion tag, marker, fence or run of three
\* line feeds comes back from format_mdx_file character for character, a
\* line feed at its end included.
C20_TriggerFreeUnchanged ==
    (pc = "done" /\ TriggerFree(content)) => result = content

-----------------------------------------------------------------------------
(* The depth and the wrappers of wrap_accordions_in_container.  The lines  *)
(* given hold no wrapper of their own, so every wrapper line among the     *)
(* emitted ones was written by the function.                               *)

IsWrapper(line) == line \in {AccordionsOpen, AccordionsClose}

\* The wrapper lines of ls, in their order.
WrappersOf(ls) == SelectSeq(ls, IsWrapper)

NotWrapper(line) == ~IsWrapper(line)

\* The lines of ls that are no wrappers, in their order.
BodyOf(ls) == SelectSeq(ls, NotWrapper)

\* Opening and closing wrappers take turns, an opening one first and a
\* closing one last.
Balanced(ws) ==
    /\ Len(ws) % 2 = 0
    /\ \A k \in 1..Len(ws) :
           ws[k] = IF k % 2 = 1 THEN AccordionsOpen ELSE AccordionsClose

\* No opening wrapper has its closing wrapper on the next line.
NoEmptyWrapper(ls) ==
    \A k \in 1..(Len(ls) - 1) :
        ~(ls[k] = AccordionsOpen /\ ls[k + 1] = AccordionsClose)

\* C21: in wrap_accordions_in_container the depth is never below zero after
\* a line; the wrappers emitted so far are balanced, each opening one
\* followed by its one closing one, and none has an empty body; the lines
\* emitted and the lines buffered are together the lines taken so far, in
\* their order; and what the function returns holds every line of the
\* input, none left in the buffer.
C21_DepthAndWrappers ==
    /\ pc = "loop" =>
           /\ depth >= 0
           /\ Balanced(WrappersOf(wrapped))
           /\ NoEmptyWrapper(wrapped)
           /\ BodyOf(wrapped) \o accordion_buffer = SubSeq(lines, 1, idx)
    /\ pc = "done" =>
           LET emitted == Split(result, NL)
           IN  /\ Balanced(WrappersOf(emitted))
               /\ NoEmptyWrapper(emitted)
               /\ Join(BodyOf(emitted), <<NL>>) = Join(lines, <<NL>>)

\* C21 witness: a block was taken line by line, its depth came back to
\* zero on its closing tag, it was wrapped there, and the line after it
\* stayed outside the wrapper; nothing is left in the buffer.
C21_Witness ==
    /\ pc = "done"
    /\ lines = <<AccordionT, AccordionClose, <<"x">>>>
    /\ depth = 0
    /\ accordion_buffer = <<>>
    /\ result = Join(<<AccordionsOpen, AccordionT, AccordionClose,
                       AccordionsClose, <<"x">>>>, <<NL>>)

=============================================================================
